---- MODULE Spec2Model ----
(***************************************************************************)
(* A model of processCASpdf.py: the line walker _ProcessTextFile.process,  *)
(* the identity extractor _ProcessTextFile.extract_fund_and_isin, the      *)
(* regular expressions they use and the lookup _LatestNav.get_sch_code.    *)
(*                                                                         *)
(* Text is modelled by TLA+ strings; a character is a string of length 1.  *)
(* Line indices are 0-based as in the source: line k of the input is       *)
(* alllines[k + 1].                                                        *)
(***************************************************************************)
EXTENDS Integers, Sequences, FiniteSets, TLC

(***************************************************************************)
(* Bounds of the model.                                                    *)
(***************************************************************************)
\* the longest input (number of text lines) the walker is run on
MaxLines == 3

(***************************************************************************)
(* Python str operations.                                                  *)
(***************************************************************************)
Char(s, p) == SubSeq(s, p, p)

Min2(a, b) == IF a < b THEN a ELSE b

\* the characters str.strip() removes and \s matches
Whitespace == {" ", "\t", "\n", "\r", "\f"}

Digits == {"0", "1", "2", "3", "4", "5", "6", "7", "8", "9"}

Uppers == {"A", "B", "C", "D", "E", "F", "G", "H", "I", "J", "K", "L", "M",
           "N", "O", "P", "Q", "R", "S", "T", "U", "V", "W", "X", "Y", "Z"}

\* sub in s
In(sub, s) ==
    \E p \in 1..(Len(s) - Len(sub) + 1) : SubSeq(s, p, p + Len(sub) - 1) = sub

\* s.find(sub, p - 1) + 1, and 0 when sub does not occur in s from p on
RECURSIVE FindFrom(_, _, _)
FindFrom(s, sub, p) ==
    IF p + Len(sub) - 1 > Len(s)
    THEN 0
    ELSE IF SubSeq(s, p, p + Len(sub) - 1) = sub
         THEN p
         ELSE FindFrom(s, sub, p + 1)

\* s.find(sub) + 1
Find(s, sub) == FindFrom(s, sub, 1)

StartsWith(s, pre) == Len(pre) <= Len(s) /\ SubSeq(s, 1, Len(pre)) = pre

EndsWith(s, suf) ==
    Len(suf) <= Len(s) /\ SubSeq(s, Len(s) - Len(suf) + 1, Len(s)) = suf

RECURSIVE LStripChars(_, _)
LStripChars(s, chars) ==
    IF Len(s) > 0 /\ Char(s, 1) \in chars
    THEN LStripChars(SubSeq(s, 2, Len(s)), chars)
    ELSE s

\* s.rstrip(chars)
RECURSIVE RStripChars(_, _)
RStripChars(s, chars) ==
    IF Len(s) > 0 /\ Char(s, Len(s)) \in chars
    THEN RStripChars(SubSeq(s, 1, Len(s) - 1), chars)
    ELSE s

\* s.strip()
Strip(s) == LStripChars(RStripChars(s, Whitespace), Whitespace)

\* s.split(sep): the pieces between the non-overlapping occurrences of sep,
\* scanned from the left
RECURSIVE Split(_, _)
Split(s, sep) ==
    LET p == Find(s, sep)
    IN  IF p = 0
        THEN <<s>>
        ELSE <<SubSeq(s, 1, p - 1)>> \o Split(SubSeq(s, p + Len(sep), Len(s)), sep)

\* s.split(sep, 1)
SplitOnce(s, sep) ==
    LET p == Find(s, sep)
    IN  IF p = 0
        THEN <<s>>
        ELSE <<SubSeq(s, 1, p - 1), SubSeq(s, p + Len(sep), Len(s))>>

RECURSIVE Join(_)
Join(parts) == IF parts = <<>> THEN "" ELSE Head(parts) \o Join(Tail(parts))

\* s.replace(old, "")
Remove(s, old) == Join(Split(s, old))

(***************************************************************************)
(* Regular expressions.  A pattern is a sequence of items; an item matches *)
(* a run of min..max characters of a class (max = -1: unbounded), greedily *)
(* or lazily.  ReM is the backtracking matcher of Python's re: for each    *)
(* item in turn it takes the first run length, in the item's order of      *)
(* preference, for which the rest of the pattern matches.                  *)
(***************************************************************************)
Item(set, neg, min, max, lazy) ==
    [set |-> set, neg |-> neg, min |-> min, max |-> max, lazy |-> lazy]

One(set) == Item(set, FALSE, 1, 1, FALSE)
Plus(set) == Item(set, FALSE, 1, -1, FALSE)
Star(set) == Item(set, FALSE, 0, -1, FALSE)

\* a literal text
Lit(text) == [p \in 1..Len(text) |-> One({Char(text, p)})]

\* . (any character but a newline), greedy and lazy
DotStar == Item({"\n"}, TRUE, 0, -1, FALSE)
DotStarLazy == Item({"\n"}, TRUE, 0, -1, TRUE)
\* \s+ and \s*
WsPlus == Plus(Whitespace)
WsStar == Star(Whitespace)
\* \S+
NonWsPlus == Item(Whitespace, TRUE, 1, -1, FALSE)

InClass(it, c) == (c \in it.set) # it.neg

\* the length of the longest run of the item's class at pos, at most lim
RECURSIVE RunLen(_, _, _, _, _)
RunLen(it, s, pos, n, lim) ==
    IF n < lim /\ InClass(it, Char(s, pos + n))
    THEN RunLen(it, s, pos, n + 1, lim)
    ELSE n

ReFail == <<-1>>

\* the run lengths of items k.. of re matched at pos of s, or ReFail: item k
\* takes the first run length, longest first (greedy) or shortest first
\* (lazy), after which the rest of the pattern matches
RECURSIVE ReM(_, _, _, _)
ReM(re, s, k, pos) ==
    IF k > Len(re)
    THEN <<>>
    ELSE LET it == re[k]
             rest == Len(s) - pos + 1
             lim == IF it.max < 0 THEN rest ELSE Min2(it.max, rest)
             run == RunLen(it, s, pos, 0, lim)
             tries == {<<n, ReM(re, s, k + 1, pos + n)>> : n \in it.min..run}
             ok == {t \in tries : t[2] # ReFail}
             first == CHOOSE t \in ok :
                         \A u \in ok : IF it.lazy THEN t[1] <= u[1] ELSE t[1] >= u[1]
         IN  IF ok = {} THEN ReFail ELSE <<first[1]>> \o first[2]

RECURSIVE SumTo(_, _)
SumTo(m, k) == IF k = 0 THEN 0 ELSE m[k] + SumTo(m, k - 1)

\* the text items a..b of a match m of s cover, the match starting at pos
Span(s, m, pos, a, b) == SubSeq(s, pos + SumTo(m, a - 1), pos + SumTo(m, b) - 1)

\* re.search(re, s): the leftmost match; "" stands for None (no pattern
\* searched for here matches the empty text)
RECURSIVE ReSearchFrom(_, _, _)
ReSearchFrom(re, s, p) ==
    IF p > Len(s)
    THEN ""
    ELSE LET m == ReM(re, s, 1, p)
         IN  IF m # ReFail
             THEN Span(s, m, p, 1, Len(re))
             ELSE ReSearchFrom(re, s, p + 1)

ReSearch(re, s) == ReSearchFrom(re, s, 1)

\* re.match(re, s) with its named groups: groups maps a group's name to the
\* first and last item it spans
NoMatch == [matched |-> FALSE]

ReMatch(re, groups, s) ==
    LET m == ReM(re, s, 1, 1)
    IN  IF m = ReFail
        THEN NoMatch
        ELSE [matched |-> TRUE,
              g |-> [n \in DOMAIN groups |->
                        Span(s, m, 1, groups[n][1], groups[n][2])]]

(***************************************************************************)
(* The text lines the walker is run on.  Inputs are sequences of these      *)
(* lines, so what the code computes from a single line is tabulated once   *)
(* for each of them (XxxTable below); the tabulated operators compute the  *)
(* same value for any other text.                                          *)
(***************************************************************************)
FolioLine == "Folio No: 12345678 PAN: ABCDE1234F"
FnameIsinLine == "PAMP-ExampleFund-Growth-Direct Plan - ISIN: INF123456789"
BuyLine == "05-Apr-2025 Purchase 1000.00 10.500 95.2381 10.500"
SellLine == "06-Apr-2025 Redemption (500.00) (5.250) 95.2381 5.250"
SegrLine == "07-Apr-2025 Allotment 10.500 21.000"
PlainLine == "Total"
HyphenLine == "ExampleFund -"
MarkerLine == "ISIN: INF987654321"
PampLine == "PAMP-"
TagLine == "(Demat) ISIN: INF"
DashLine == "-"

LineLibrary ==
    {FolioLine, FnameIsinLine, BuyLine, SellLine, SegrLine, PlainLine,
     HyphenLine, MarkerLine, PampLine, TagLine, DashLine}

\* lines of mixed shape: a word where the amount should be, a date and
\* nothing more, a folio header that goes on with ISIN:, transaction columns
\* after ISIN:, a fund name of three hyphenated parts before an ISIN: that
\* has no identifier, and amounts written without and with a bare point
NonNumLine == "05-Apr-2025 Purchase abc 10.500 95.2381 10.500"
NoGrammarLine == "05-Apr-2025 Purchase abc"
FolioIsinLine == "Folio No: 77 PAN: ABCDE1234F ISIN: INF987654321"
TxnMarkerLine == "05-Apr-2025 Purchase ISIN: 1000.00 10.500 95.2381 10.500"
HyphenTagLine == "ExampleFund-Direct-(G) ISIN: NA"
IntLine == "05-Apr-2025 Purchase 1000 10 95 10"
PointLine == "05-Apr-2025 Purchase 1000. 10.500 95.2381 10.500"

CaseLibrary ==
    {NonNumLine, NoGrammarLine, FolioIsinLine, TxnMarkerLine, HyphenTagLine,
     IntLine, PointLine, FnameIsinLine, BuyLine, SellLine}

\* the lines whose single-line results are tabulated
TabulatedLines == LineLibrary \cup CaseLibrary

(***************************************************************************)
(* The patterns of the source.                                             *)
(***************************************************************************)
\* [0-9]+\.[0-9]*
NUM == <<Plus(Digits), One({"."}), Star(Digits)>>

\* \([0-9]+\.[0-9]*\)
PAREN_NUM == <<One({"("})>> \o NUM \o <<One({")"})>>

\* \d+\-\S+\-\d+
DATE == <<Plus(Digits), One({"-"}), NonWsPlus, One({"-"}), Plus(Digits)>>

REGULAR_BUY_TXN ==
    DATE \o <<WsPlus, DotStar, WsPlus>> \o NUM \o <<WsPlus>> \o NUM
         \o <<WsPlus>> \o NUM \o <<WsPlus>> \o NUM \o <<DotStar>>

BuyGroups ==
    [date |-> <<1, 5>>, txn |-> <<7, 7>>, amount |-> <<9, 11>>,
     units |-> <<13, 15>>, nav |-> <<17, 19>>, unitbalance |-> <<21, 23>>]

REGULAR_SELL_TXN ==
    DATE \o <<WsPlus, DotStar, WsPlus>> \o PAREN_NUM \o <<WsPlus>> \o PAREN_NUM
         \o <<WsPlus>> \o NUM \o <<WsPlus>> \o NUM \o <<DotStar>>

\* a faulty variant of SellGroups: the amount and units groups swapped
SellGroupsSwapped ==
    [date |-> <<1, 5>>, txn |-> <<7, 7>>, amount |-> <<15, 19>>,
     units |-> <<9, 13>>, nav |-> <<21, 23>>, unitbalance |-> <<25, 27>>]

SellGroups ==
    [date |-> <<1, 5>>, txn |-> <<7, 7>>, amount |-> <<9, 13>>,
     units |-> <<15, 19>>, nav |-> <<21, 23>>, unitbalance |-> <<25, 27>>]

SEGR_BUY_TXN ==
    DATE \o <<WsPlus, DotStar, WsPlus>> \o NUM \o <<WsPlus>> \o NUM \o <<DotStar>>

SegrGroups ==
    [date |-> <<1, 5>>, txn |-> <<7, 7>>, units |-> <<9, 11>>,
     unitbalance |-> <<13, 15>>]

\* ^Folio No:\s+(.*)\s+PAN:\s+([A-Z,0-9]{10})
FOLIO_PAN ==
    Lit("Folio No:") \o <<WsPlus, DotStar, WsPlus>> \o Lit("PAN:")
        \o <<WsPlus, Item(Uppers \cup Digits \cup {","}, FALSE, 10, 10, FALSE)>>

FolioGroups == [folio_num |-> <<11, 11>>, pan |-> <<18, 18>>]

\* INF[A-Z0-9]{9}
ISIN_RE == Lit("INF") \o <<Item(Uppers \cup Digits, FALSE, 9, 9, FALSE)>>

\* ([A-Z0-9]{9})
ISIN_REST_RE == <<Item(Uppers \cup Digits, FALSE, 9, 9, FALSE)>>

\* ^(.*?)(?:\s*-\s*|\s+)ISIN:\s*(INF[A-Z0-9]{9}).*  The alternation is
\* unfolded into its two branches.
FNAME_ISIN_HYPHEN ==
    <<DotStarLazy, WsStar, One({"-"}), WsStar>> \o Lit("ISIN:") \o <<WsStar>>
        \o ISIN_RE \o <<DotStar>>

FnameHyphenGroups == [fund_name |-> <<1, 1>>, isin |-> <<11, 14>>]

FNAME_ISIN_SPACE ==
    <<DotStarLazy, WsPlus>> \o Lit("ISIN:") \o <<WsStar>> \o ISIN_RE \o <<DotStar>>

FnameSpaceGroups == [fund_name |-> <<1, 1>>, isin |-> <<9, 12>>]

\* re.match(FNAME_ISIN, s): the engine lengthens the lazy fund_name one
\* character at a time and tries both branches at each length, the hyphen
\* branch first, so the match with the shorter fund_name is the one found
FnameIsinMatch(s) ==
    LET a == ReMatch(FNAME_ISIN_HYPHEN, FnameHyphenGroups, s)
        b == ReMatch(FNAME_ISIN_SPACE, FnameSpaceGroups, s)
    IN  IF ~a.matched
        THEN b
        ELSE IF ~b.matched
             THEN a
             ELSE IF Len(b.g.fund_name) < Len(a.g.fund_name) THEN b ELSE a

FnameIsinTable == [l \in TabulatedLines |-> FnameIsinMatch(l)]

MatchFnameIsin(s) == IF s \in TabulatedLines THEN FnameIsinTable[s] ELSE FnameIsinMatch(s)

\* re.match(FOLIO_PAN, s)
FolioTable == [l \in TabulatedLines |-> ReMatch(FOLIO_PAN, FolioGroups, l)]

MatchFolio(s) ==
    IF s \in TabulatedLines THEN FolioTable[s] ELSE ReMatch(FOLIO_PAN, FolioGroups, s)

\* re.match(REGULAR_BUY_TXN, s)
BuyTable == [l \in TabulatedLines |-> ReMatch(REGULAR_BUY_TXN, BuyGroups, l)]

MatchBuy(s) ==
    IF s \in TabulatedLines THEN BuyTable[s] ELSE ReMatch(REGULAR_BUY_TXN, BuyGroups, s)

\* re.match(REGULAR_SELL_TXN, s)
SellTable == [l \in TabulatedLines |-> ReMatch(REGULAR_SELL_TXN, SellGroups, l)]

MatchSell(s) ==
    IF s \in TabulatedLines THEN SellTable[s] ELSE ReMatch(REGULAR_SELL_TXN, SellGroups, s)

\* re.match(SEGR_BUY_TXN, s)
SegrTable == [l \in TabulatedLines |-> ReMatch(SEGR_BUY_TXN, SegrGroups, l)]

MatchSegr(s) ==
    IF s \in TabulatedLines THEN SegrTable[s] ELSE ReMatch(SEGR_BUY_TXN, SegrGroups, s)

(***************************************************************************)
(* Fund-name cleaning.                                                     *)
(***************************************************************************)
REGISTRAR == "Registrar : CAMS"

\* if "Registrar : CAMS" in fund_name: fund_name = fund_name.replace(...).strip()
StripRegistrar(fund_name) ==
    IF In(REGISTRAR, fund_name) THEN Strip(Remove(fund_name, REGISTRAR)) ELSE fund_name

\* the text after the first hyphen, trailing hyphens and spaces trimmed
CleanFirstHyphen(potential_fund_name) ==
    StripRegistrar(
        IF In("-", potential_fund_name)
        THEN Strip(RStripChars(Strip(SplitOnce(potential_fund_name, "-")[2]), {"-", " "}))
        ELSE Strip(potential_fund_name))

\* the text after the last hyphen, unless it is shorter than 5 characters or
\* begins with "(": then the text after the first hyphen
CleanLastHyphenOrFirst(potential_fund_name) ==
    StripRegistrar(
        IF In("-", potential_fund_name)
        THEN LET parts == Split(potential_fund_name, "-")
                 last == Strip(parts[Len(parts)])
             IN  IF Len(last) < 5 \/ StartsWith(last, "(")
                 THEN Strip(SplitOnce(potential_fund_name, "-")[2])
                 ELSE last
        ELSE potential_fund_name)

\* the text after the last hyphen
CleanLastHyphen(potential_fund_name) ==
    StripRegistrar(
        IF In("-", potential_fund_name)
        THEN LET parts == Split(potential_fund_name, "-")
             IN  Strip(parts[Len(parts)])
        ELSE potential_fund_name)

\* the fund-name fragments of the long conditions
FundFragments ==
    {"PAMP-", "-Growth", "-Direct", "-Regular", "-Plan", "-Fund", "-HDFC",
     "-ICICI", "-SBI", "-Axis", "-Kotak", "-Nippon", "-Tata", "-UTI",
     "-Aditya", "-Mirae", "-Parag", "-Edelweiss", "-DSP", "-Invesco",
     "-PGIM", "-HSBC", "-BNP", "-Franklin", "-IDFC", "-Reliance", "-L&T",
     "-Mahindra", "-Canara", "-Indiabulls", "-Motilal", "-Quantum",
     "-Sundaram", "-Taurus", "-JM", "-Principal", "-Baroda", "-LIC", "-BOI",
     "-Union", "-IDBI", "-IIFL", "-PPFAS", "-WhiteOak", "-Samco", "-Groww",
     "-KFintech", "-CAMS", "-Karvy", "-NSDL", "-CDSL", "-SEBI", "-AMFI",
     "-RBI", "-NSE", "-BSE", "-MCX", "-NCDEX", "-MCX-SX", "-OTCEI", "-ISE",
     "-USE", "-CSE", "-DSE", "-MSE", "-VSE", "-PSE", "-ASE", "-KSE", "-TSE",
     "-SSE", "-HSE", "-LSE", "-NYSE", "-NASDAQ", "-HKSE", "-SGX", "-ASX",
     "-TSX", "-FSE", "-XETRA", "-Euronext"}

\* any(x in current_line for x in [...])
AnyFundFragment(current_line) == \E f \in FundFragments : In(f, current_line)

FragmentTable == [l \in TabulatedLines |-> AnyFundFragment(l)]

HasFundFragment(current_line) ==
    IF current_line \in TabulatedLines
    THEN FragmentTable[current_line]
    ELSE AnyFundFragment(current_line)

HoldingTags == {"(Non-Demat)", "(Demat)", "(Physical)"}

HasHoldingTag(next_line) == \E h \in HoldingTags : StartsWith(next_line, h)

(***************************************************************************)
(* _ProcessTextFile.extract_fund_and_isin(lines, start_idx).  The local    *)
(* fund_name keeps the value the last heuristic that ran gave it, also     *)
(* when that heuristic found no identifier and did not return.             *)
(***************************************************************************)
Ret(fund_name, isin, idx) == [fund_name |-> fund_name, isin |-> isin, idx |-> idx]

\* the loop "for i in range(start_idx, min(start_idx + 3, len(lines)))"
\* a faulty variant of AggressiveSearch: the index returned is that of the
\* line after the one the identifier was found on
RECURSIVE AggressiveSearchOneBased(_, _, _, _)
AggressiveSearchOneBased(lines, start_idx, i, fund_name) ==
    IF i >= Min2(start_idx + 3, Len(lines))
    THEN Ret(fund_name, "", start_idx)
    ELSE LET line == Strip(lines[i + 1])
             isin_parts == Split(line, "ISIN:")
             name == CleanFirstHyphen(Strip(isin_parts[1]))
             isin_match == ReSearch(ISIN_RE, isin_parts[2])
         IN  IF In("ISIN:", line)
             THEN IF isin_match # ""
                  THEN Ret(name, isin_match, i + 1)
                  ELSE AggressiveSearchOneBased(lines, start_idx, i + 1, name)
             ELSE AggressiveSearchOneBased(lines, start_idx, i + 1, fund_name)

RECURSIVE AggressiveSearch(_, _, _, _)
AggressiveSearch(lines, start_idx, i, fund_name) ==
    IF i >= Min2(start_idx + 3, Len(lines))
    THEN Ret(fund_name, "", start_idx)
    ELSE LET line == Strip(lines[i + 1])
             isin_parts == Split(line, "ISIN:")
             name == CleanFirstHyphen(Strip(isin_parts[1]))
             isin_match == ReSearch(ISIN_RE, isin_parts[2])
         IN  IF In("ISIN:", line)
             THEN IF isin_match # ""
                  THEN Ret(name, isin_match, i)
                  ELSE AggressiveSearch(lines, start_idx, i + 1, name)
             ELSE AggressiveSearch(lines, start_idx, i + 1, fund_name)

extract_fund_and_isin(lines, start_idx) ==
    LET current_line == Strip(lines[start_idx + 1])
        has_next == start_idx + 1 < Len(lines)
        next_line == Strip(lines[start_idx + 2])
        \* the current line ends with a hyphen and the next starts with ISIN:
        h1 == EndsWith(current_line, "-") /\ has_next /\ StartsWith(next_line, "ISIN:")
        name1 == IF h1
                 THEN CleanFirstHyphen(Strip(RStripChars(current_line, {"-"})))
                 ELSE ""
        isin1 == IF h1 THEN ReSearch(ISIN_RE, Strip(Remove(next_line, "ISIN:"))) ELSE ""
        \* ISIN: in the current line
        h2 == In("ISIN:", current_line)
        parts == Split(current_line, "ISIN:")
        name2 == IF h2 THEN CleanFirstHyphen(Strip(parts[1])) ELSE name1
        isin_part == Strip(parts[2])
        isin2 == IF h2 THEN ReSearch(ISIN_RE, isin_part) ELSE ""
        rest2 == IF /\ h2
                    /\ EndsWith(isin_part, "INF") \/ In("INF", isin_part)
                    /\ has_next
                 THEN ReSearch(ISIN_REST_RE, next_line)
                 ELSE ""
        \* ISIN: in the next line
        h3 == has_next /\ In("ISIN:", next_line)
        isin_parts == Split(next_line, "ISIN:")
        name3 == IF ~h3
                 THEN name2
                 ELSE IF HasFundFragment(current_line)
                      THEN CleanFirstHyphen(Strip(current_line))
                      ELSE IF HasHoldingTag(next_line)
                           THEN CleanFirstHyphen(Strip(current_line))
                           ELSE CleanFirstHyphen(Strip(isin_parts[1]))
        isin3 == IF ~h3
                 THEN ""
                 ELSE IF HasFundFragment(current_line)
                      THEN ReSearch(ISIN_RE, Strip(Remove(next_line, "ISIN:")))
                      ELSE IF HasHoldingTag(next_line)
                           THEN ReSearch(ISIN_RE, Strip(Remove(next_line, "ISIN:")))
                           ELSE ReSearch(ISIN_RE, Strip(isin_parts[2]))
        \* the rest of a split identifier in the next line
        rest3 == IF has_next /\ In("INF", current_line)
                 THEN ReSearch(ISIN_REST_RE, next_line)
                 ELSE ""
    IN  IF isin1 # ""
        THEN Ret(name1, isin1, start_idx + 1)
        ELSE IF isin2 # ""
        THEN Ret(name2, isin2, start_idx)
        ELSE IF rest2 # ""
        THEN Ret(name2, "INF" \o rest2, start_idx + 1)
        ELSE IF isin3 # ""
        THEN Ret(name3, isin3, start_idx + 1)
        ELSE IF rest3 # ""
        THEN Ret(name3, "INF" \o rest3, start_idx + 1)
        ELSE AggressiveSearch(lines, start_idx, start_idx, name3)

(***************************************************************************)
(* _LatestNav.get_sch_code and float().                                    *)
(***************************************************************************)
\* a faulty variant of get_sch_code: the last entry that matches decides
get_sch_code_Last(navdata, isin) ==
    LET hits == {k \in 1..Len(navdata) :
                    navdata[k].isin_growth = isin \/ navdata[k].isin_div_reinv = isin}
    IN  IF hits = {}
        THEN ""
        ELSE navdata[CHOOSE k \in hits : \A m \in hits : m <= k].scheme_code

RECURSIVE get_sch_code(_, _)
get_sch_code(navdata, isin) ==
    IF navdata = <<>>
    THEN ""
    ELSE LET a == Head(navdata)
         IN  IF a.isin_growth = isin \/ a.isin_div_reinv = isin
             THEN a.scheme_code
             ELSE get_sch_code(Tail(navdata), isin)

DigitValue(c) == CHOOSE d \in 0..9 : Char("0123456789", d + 1) = c

RECURSIVE DigitsToNat(_)
DigitsToNat(s) ==
    IF s = ""
    THEN 0
    ELSE 10 * DigitsToNat(SubSeq(s, 1, Len(s) - 1)) + DigitValue(Char(s, Len(s)))

\* float(s) raises ValueError unless s is a number.  The texts float() is
\* given here consist of digits, points and parentheses only; of those the
\* numbers are the texts with at least one digit and at most one point.
FloatRaises(s) ==
    LET t == Strip(s)
    IN  \/ \E p \in 1..Len(t) : Char(t, p) \notin Digits \cup {"."}
        \/ Len(Split(t, ".")) > 2
        \/ \A p \in 1..Len(t) : Char(t, p) = "."

\* float(s) as the exact decimal it denotes: the integer part and the
\* fractional digits without trailing zeros (binary rounding is left out)
Float(s) ==
    LET t == Strip(s)
        sp == SplitOnce(t, ".")
    IN  [int |-> DigitsToNat(sp[1]),
         frac |-> IF Len(sp) > 1 THEN RStripChars(sp[2], {"0"}) ELSE ""]

_FundDetails(fund_name, isin, scheme_code, folio_num, date, txn, amount, units, nav, balance_units) ==
    [fund_name |-> fund_name, isin |-> isin, scheme_code |-> scheme_code,
     folio_num |-> folio_num, date |-> date, txn |-> txn, amount |-> amount,
     units |-> units, nav |-> nav, balance_units |-> balance_units]

(***************************************************************************)
(* One iteration of the loop of _ProcessTextFile.process, at line i with   *)
(* the context (folio_num, fund_name, isin).  The result names the rule    *)
(* that ended the iteration, the cursor and the context after it, the      *)
(* records it appended (none or one) and whether a float() in it raised.   *)
(***************************************************************************)
Outcome(rule, i, folio_num, fund_name, isin, recs, raised) ==
    [rule |-> rule, i |-> i, folio_num |-> folio_num, fund_name |-> fund_name,
     isin |-> isin, recs |-> recs, raised |-> raised]

\* lines 646-670: the record of a regular buy; amount and units stay text
BuyRecord(g, folio_num, fund_name, isin, navdata) ==
    _FundDetails(fund_name, isin, get_sch_code(navdata, isin), folio_num, g.date,
                 "Buy", g.amount, g.units, Float(g.nav), Float(g.unitbalance))

\* re.sub(r"\(|\)", "", s)
NoParens(s) == Remove(Remove(s, "("), ")")

\* lines 675-700: the record of a regular sell
SellRecord(g, folio_num, fund_name, isin, navdata) ==
    _FundDetails(fund_name, isin, get_sch_code(navdata, isin), folio_num, g.date,
                 "Sell", Float(NoParens(g.amount)), Float(NoParens(g.units)),
                 Float(g.nav), Float(g.unitbalance))

\* a faulty variant of SegrRecord: the amount copied from the units group
SegrRecordKeepsUnits(g, folio_num, fund_name, isin, navdata) ==
    _FundDetails(fund_name, isin, get_sch_code(navdata, isin), folio_num, g.date,
                 "Buy", g.units, g.units, Float("0"), Float(g.unitbalance))

\* lines 705-728: the record of a segregated buy
SegrRecord(g, folio_num, fund_name, isin, navdata) ==
    _FundDetails(fund_name, isin, get_sch_code(navdata, isin), folio_num, g.date,
                 "Buy", "0", g.units, Float("0"), Float(g.unitbalance))

\* a faulty variant of Transaction: the segregated pattern is tried first
TransactionSegrFirst(eachline, i, folio_num, fund_name, isin, navdata) ==
    LET buy == MatchBuy(eachline)
        sell == MatchSell(eachline)
        segr == MatchSegr(eachline)
    IN  IF segr.matched
        THEN Outcome("segr", i + 1, folio_num, fund_name, isin,
                 <<SegrRecord(segr.g, folio_num, fund_name, isin, navdata)>>,
                 FloatRaises("0") \/ FloatRaises(segr.g.unitbalance))
        ELSE IF buy.matched
        THEN Outcome("buy", i + 1, folio_num, fund_name, isin,
                 <<BuyRecord(buy.g, folio_num, fund_name, isin, navdata)>>,
                 FloatRaises(buy.g.nav) \/ FloatRaises(buy.g.unitbalance))
        ELSE IF sell.matched
        THEN Outcome("sell", i + 1, folio_num, fund_name, isin,
                 <<SellRecord(sell.g, folio_num, fund_name, isin, navdata)>>,
                 \/ FloatRaises(NoParens(sell.g.amount))
                 \/ FloatRaises(NoParens(sell.g.units))
                 \/ FloatRaises(sell.g.nav) \/ FloatRaises(sell.g.unitbalance))
        ELSE Outcome("none", i + 1, folio_num, fund_name, isin, <<>>, FALSE)

\* a faulty variant of Transaction: a line that fails the regular-buy
\* pattern is not tried against the other two
TransactionBuyOnly(eachline, i, folio_num, fund_name, isin, navdata) ==
    LET buy == MatchBuy(eachline)
    IN  IF buy.matched
        THEN Outcome("buy", i + 1, folio_num, fund_name, isin,
                 <<BuyRecord(buy.g, folio_num, fund_name, isin, navdata)>>,
                 FloatRaises(buy.g.nav) \/ FloatRaises(buy.g.unitbalance))
        ELSE Outcome("none", i + 1, folio_num, fund_name, isin, <<>>, FALSE)

\* lines 645-734: the three transaction patterns, then "no pattern"
Transaction(eachline, i, folio_num, fund_name, isin, navdata) ==
    LET buy == MatchBuy(eachline)
        sell == MatchSell(eachline)
        segr == MatchSegr(eachline)
    IN  IF buy.matched
        THEN Outcome("buy", i + 1, folio_num, fund_name, isin,
                 <<BuyRecord(buy.g, folio_num, fund_name, isin, navdata)>>,
                 FloatRaises(buy.g.nav) \/ FloatRaises(buy.g.unitbalance))
        ELSE IF sell.matched
        THEN Outcome("sell", i + 1, folio_num, fund_name, isin,
                 <<SellRecord(sell.g, folio_num, fund_name, isin, navdata)>>,
                 \/ FloatRaises(NoParens(sell.g.amount))
                 \/ FloatRaises(NoParens(sell.g.units))
                 \/ FloatRaises(sell.g.nav) \/ FloatRaises(sell.g.unitbalance))
        ELSE IF segr.matched
        THEN Outcome("segr", i + 1, folio_num, fund_name, isin,
                 <<SegrRecord(segr.g, folio_num, fund_name, isin, navdata)>>,
                 FloatRaises("0") \/ FloatRaises(segr.g.unitbalance))
        ELSE Outcome("none", i + 1, folio_num, fund_name, isin, <<>>, FALSE)

\* a faulty variant of ManualFallback: the next line is skipped whether or
\* not it exists and holds the rest of the identifier
ManualFallbackSkipsNext(alllines, i, folio_num, isin) ==
    LET eachline == alllines[i + 1]
        isin_parts == Split(eachline, "ISIN:")
        name == CleanLastHyphen(Strip(isin_parts[1]))
        isin_match == ReSearch(ISIN_RE, Strip(isin_parts[2]))
    IN  Outcome("fallback", i + 2, folio_num, name,
                IF isin_match # "" THEN isin_match ELSE isin, <<>>, FALSE)

\* lines 600-643: a line with ISIN: that no earlier rule took
ManualFallback(alllines, i, folio_num, isin) ==
    LET eachline == alllines[i + 1]
        isin_parts == Split(eachline, "ISIN:")
        name == CleanLastHyphen(Strip(isin_parts[1]))
        isin_part == Strip(isin_parts[2])
        isin_match == ReSearch(ISIN_RE, isin_part)
        isin_rest == IF /\ isin_match = ""
                        /\ EndsWith(isin_part, "INF") \/ In("INF", isin_part)
                        /\ i + 1 < Len(alllines)
                     THEN ReSearch(ISIN_REST_RE, Strip(alllines[i + 2]))
                     ELSE ""
    IN  Outcome("fallback",
                IF isin_rest # "" THEN i + 2 ELSE i + 1,
                folio_num, name,
                IF isin_match # ""
                THEN isin_match
                ELSE IF isin_rest # "" THEN "INF" \o isin_rest ELSE isin,
                <<>>, FALSE)

\* a faulty variant of SpecialCases: a line with ISIN: that matches a
\* transaction pattern is classified instead of going to the manual fallback
SpecialCasesTransactionFirst(alllines, i, folio_num, fund_name, isin, navdata) ==
    LET eachline == alllines[i + 1]
        marker_next == i + 1 < Len(alllines) /\ In("ISIN:", alllines[i + 2])
        current_line == Strip(eachline)
        next_line == Strip(alllines[i + 2])
        isin_match == ReSearch(ISIN_RE, Strip(Remove(next_line, "ISIN:")))
        fragment == marker_next /\ HasFundFragment(current_line)
        tag == marker_next /\ HasHoldingTag(next_line)
        name == IF fragment \/ tag THEN CleanFirstHyphen(current_line) ELSE fund_name
    IN  IF fragment /\ isin_match # ""
        THEN Outcome("special", i + 1, folio_num, name, isin_match, <<>>, FALSE)
        ELSE IF tag /\ isin_match # ""
        THEN Outcome("special", i + 1, folio_num, name, isin_match, <<>>, FALSE)
        ELSE IF In("ISIN:", eachline) /\ ~MatchBuy(eachline).matched
        THEN ManualFallback(alllines, i, folio_num, isin)
        ELSE Transaction(eachline, i, folio_num, name, isin, navdata)

\* lines 506-734: the special cases "fund name on this line, ISIN: on the
\* next"; when they find no identifier the fund_name they assigned stays
SpecialCases(alllines, i, folio_num, fund_name, isin, navdata) ==
    LET eachline == alllines[i + 1]
        marker_next == i + 1 < Len(alllines) /\ In("ISIN:", alllines[i + 2])
        current_line == Strip(eachline)
        next_line == Strip(alllines[i + 2])
        isin_match == ReSearch(ISIN_RE, Strip(Remove(next_line, "ISIN:")))
        fragment == marker_next /\ HasFundFragment(current_line)
        tag == marker_next /\ HasHoldingTag(next_line)
        name == IF fragment \/ tag THEN CleanFirstHyphen(current_line) ELSE fund_name
    IN  IF fragment /\ isin_match # ""
        THEN Outcome("special", i + 1, folio_num, name, isin_match, <<>>, FALSE)
        ELSE IF tag /\ isin_match # ""
        THEN Outcome("special", i + 1, folio_num, name, isin_match, <<>>, FALSE)
        ELSE IF In("ISIN:", eachline)
        THEN ManualFallback(alllines, i, folio_num, isin)
        ELSE Transaction(eachline, i, folio_num, name, isin, navdata)

\* a faulty variant of SplitIsin: the identifier is the nine characters of
\* the next line without the prefix
SplitIsinDropsPrefix(alllines, i, folio_num, fund_name, isin, navdata) ==
    LET eachline == alllines[i + 1]
        isin_rest == IF In("INF", eachline) /\ In("ISIN:", eachline)
                        /\ i + 1 < Len(alllines)
                     THEN ReSearch(ISIN_REST_RE, Strip(alllines[i + 2]))
                     ELSE ""
        name == CleanLastHyphenOrFirst(Strip(Split(eachline, "ISIN:")[1]))
    IN  IF isin_rest # ""
        THEN Outcome("split", i + 1, folio_num, name, isin_rest, <<>>, FALSE)
        ELSE SpecialCases(alllines, i, folio_num, fund_name, isin, navdata)

\* lines 463-504: INF and ISIN: on this line, nine characters on the next
SplitIsin(alllines, i, folio_num, fund_name, isin, navdata) ==
    LET eachline == alllines[i + 1]
        isin_rest == IF In("INF", eachline) /\ In("ISIN:", eachline)
                        /\ i + 1 < Len(alllines)
                     THEN ReSearch(ISIN_REST_RE, Strip(alllines[i + 2]))
                     ELSE ""
        name == CleanLastHyphenOrFirst(Strip(Split(eachline, "ISIN:")[1]))
    IN  IF isin_rest # ""
        THEN Outcome("split", i + 1, folio_num, name, "INF" \o isin_rest, <<>>, FALSE)
        ELSE SpecialCases(alllines, i, folio_num, fund_name, isin, navdata)

\* a faulty variant of MultiLine: the extraction is accepted as soon as it
\* returns an identifier, whatever the fund name
MultiLineAnyIsin(alllines, i, folio_num, fund_name, isin, navdata) ==
    LET eachline == alllines[i + 1]
        e == extract_fund_and_isin(alllines, i)
    IN  IF /\ \/ In("ISIN:", eachline)
              \/ i + 1 < Len(alllines) /\ In("ISIN:", alllines[i + 2])
           /\ e.isin # ""
        THEN Outcome("extract", e.idx + 1, folio_num, e.fund_name, e.isin, <<>>, FALSE)
        ELSE SplitIsin(alllines, i, folio_num, fund_name, isin, navdata)

\* a faulty variant of MultiLine: the span the extraction returns is ignored
\* and the cursor moves to the next line
MultiLineIgnoresSpan(alllines, i, folio_num, fund_name, isin, navdata) ==
    LET eachline == alllines[i + 1]
        e == extract_fund_and_isin(alllines, i)
    IN  IF /\ \/ In("ISIN:", eachline)
              \/ i + 1 < Len(alllines) /\ In("ISIN:", alllines[i + 2])
           /\ e.fund_name # "" /\ e.isin # ""
        THEN Outcome("extract", i + 1, folio_num, e.fund_name, e.isin, <<>>, FALSE)
        ELSE SplitIsin(alllines, i, folio_num, fund_name, isin, navdata)

\* lines 451-461: the multi-line extraction
MultiLine(alllines, i, folio_num, fund_name, isin, navdata) ==
    LET eachline == alllines[i + 1]
        e == extract_fund_and_isin(alllines, i)
    IN  IF /\ \/ In("ISIN:", eachline)
              \/ i + 1 < Len(alllines) /\ In("ISIN:", alllines[i + 2])
           /\ e.fund_name # "" /\ e.isin # ""
        THEN Outcome("extract", e.idx + 1, folio_num, e.fund_name, e.isin, <<>>, FALSE)
        ELSE SplitIsin(alllines, i, folio_num, fund_name, isin, navdata)

\* a faulty variant of FolioRule: a folio header also clears the fund context
FolioRuleResetsFund(g, i, fund_name, isin) ==
    Outcome("folio", i + 1, g.folio_num, "", "", <<>>, FALSE)

\* a faulty variant of FolioRule: the folio of the header is not taken
FolioRuleKeepsFolio(g, i, fund_name, isin) ==
    Outcome("folio", i + 1, "", fund_name, isin, <<>>, FALSE)

\* lines 429-434: a folio header sets folio_num
FolioRule(g, i, fund_name, isin) ==
    Outcome("folio", i + 1, g.folio_num, fund_name, isin, <<>>, FALSE)

\* lines 437-449: the single-line pattern sets fund_name and isin
FnameIsinRule(g, i, folio_num) ==
    Outcome("fname_isin", i + 1, folio_num, StripRegistrar(g.fund_name), g.isin,
            <<>>, FALSE)

\* lines 425-449: the folio header and the single-line pattern, then the rest
Iteration(alllines, i, folio_num, fund_name, isin, navdata) ==
    LET eachline == alllines[i + 1]
        folio == MatchFolio(eachline)
        ident == MatchFnameIsin(eachline)
    IN  IF folio.matched
        THEN FolioRule(folio.g, i, fund_name, isin)
        ELSE IF ident.matched
        THEN FnameIsinRule(ident.g, i, folio_num)
        ELSE MultiLine(alllines, i, folio_num, fund_name, isin, navdata)

(***************************************************************************)
(* The inputs the model is run on.                                         *)
(***************************************************************************)
RECURSIVE SeqsUpTo(_, _)
SeqsUpTo(S, n) ==
    IF n = 0
    THEN {<<>>}
    ELSE LET shorter == SeqsUpTo(S, n - 1)
         IN  shorter \cup {Append(q, x) : q \in shorter, x \in S}

Inputs == SeqsUpTo(LineLibrary, MaxLines)

CaseInputs == SeqsUpTo(CaseLibrary, MaxLines)

_EachLine(scheme_code, isin_growth, isin_div_reinv, scheme_name, nav, date) ==
    [scheme_code |-> scheme_code, isin_growth |-> isin_growth,
     isin_div_reinv |-> isin_div_reinv, scheme_name |-> scheme_name,
     nav |-> nav, date |-> date]

\* the table _LatestNav holds when the walk begins
NavTables ==
    {<<_EachLine("101", "INF123456789", "INF123456780", "Example Fund", "95.2381",
                "05-Apr-2025")>>}

(***************************************************************************)
(* The price feed.  _LatestNav.__init__ requests the feed and, when the    *)
(* status is 200, hands the lines of the response to _LatestNav.process.   *)
(***************************************************************************)
MaxFeed == 3

HTTP_OK == 200

\* the statuses a response is given here: success, and two failures
StatusCodes == {HTTP_OK, 404, 503}

NavHeader == "Scheme Code;ISIN Div Payout/ ISIN Growth;ISIN Div Reinvestment;Scheme Name;Net Asset Value;Date"
NavRowA == "101;INF123456789;INF123456780;Example Fund;95.2381;05-Apr-2025"
NavRowB == "102;INF555555555;INF123456789;Other Fund;10.0000;05-Apr-2025"
NavRowShort == "103;INF987654321"
NavText == "Open Ended Schemes(Debt Scheme - Banking and PSU Fund)"

\* a row whose alternate identifier field is blank
NavRowBlank == "104;INF555555550;;Blank Fund;12.0000;05-Apr-2025"

FeedLibrary == {NavHeader, NavRowA, NavRowB, NavRowShort, NavText, NavRowBlank}

Feeds == SeqsUpTo(FeedLibrary, MaxFeed)

\* the outcomes of requests.get: a response with a status and the lines of
\* its body, or an exception (connection error, timeout), which has neither
Responses ==
    [raises : {FALSE}, status_code : StatusCodes, text : Feeds]
        \cup [raises : {TRUE}, status_code : {0}, text : {<<>>}]

\* the inputs the walk is given after the table is loaded
NavInputs ==
    {<<>>, <<FnameIsinLine, BuyLine>>, <<FolioLine, MarkerLine, SellLine>>,
     <<FnameIsinLine, BuyLine, SellLine>>, <<BuyLine>>}

\* "format_specifiers" of get_pdf_data, and the arguments it is given here
format_specifiers == {"dicts", "csv", "json", "df"}

Formats == format_specifiers \cup {"xml", ""}

\* what get_pdf_data gives back: the value it returns (None, or the records
\* as dicts, json or df), the records written to the csv file, and whether
\* an exception was caught and printed (lines 780-782)
Result(kind, records, csv, reported) ==
    [kind |-> kind, records |-> records, csv |-> csv, reported |-> reported]

\* the call has not returned
Pending == Result("pending", <<>>, <<>>, FALSE)

\* "if ';' in eachline and 'Scheme Code' not in eachline"
IsDataRow(eachline) == In(";", eachline) /\ ~In("Scheme Code", eachline)

\* the body of "for eachline in alllines" of _LatestNav.process: the table
\* after the line, or IndexError when a token the entry needs is missing
NavRow(navdata, eachline) ==
    IF IsDataRow(eachline)
    THEN LET alltokens == Split(eachline, ";")
         IN  IF Len(alltokens) < 6
             THEN [raised |-> TRUE, navdata |-> navdata]
             ELSE [raised |-> FALSE,
                   navdata |-> Append(navdata,
                                  _EachLine(alltokens[1], alltokens[2], alltokens[3],
                                            alltokens[4], alltokens[5], alltokens[6]))]
    ELSE [raised |-> FALSE, navdata |-> navdata]

(***************************************************************************)
(* The state: the input lines and the loaded table, the cursor i and the   *)
(* context of process(), and the records (self.alldata).  pc is "walk" in  *)
(* the loop, "done" after it, "raised" when an exception left it.  Two     *)
(* history variables record what the loop did: fired has, for every        *)
(* iteration, its line and the rule that ended it; emitted has the same    *)
(* for every record of alldata.  Before the walk _ProcessTextFile builds   *)
(* the table: response is what requests.get returned, navpos the number of *)
(* feed lines _LatestNav.process has gone through, printed the number of   *)
(* failure messages written, retrieved the number of calls of requests.get *)
(* made; pc is "request" and then "load" meanwhile.  Around them is        *)
(* get_pdf_data: output_format is its argument, returned what the call     *)
(* gave back; pc is "open" at its start and "returned" at its end.         *)
(* An exception of requests.get is not caught in _LatestNav.__init__ nor   *)
(* in _ProcessTextFile.__init__: pc is "raised" and no line is walked.     *)
(***************************************************************************)
VARIABLES alllines, navdata, i, folio_num, fund_name, isin, alldata, pc,
          fired, emitted, response, navpos, printed, retrieved,
          output_format, returned

vars == <<alllines, navdata, i, folio_num, fund_name, isin, alldata, pc,
          fired, emitted, response, navpos, printed, retrieved,
          output_format, returned>>

navvars == <<response, navpos, printed, retrieved>>

callvars == <<output_format, returned>>

Init ==
    /\ alllines \in Inputs
    /\ navdata \in NavTables
    /\ i = 0
    /\ folio_num = ""
    /\ fund_name = ""
    /\ isin = ""
    /\ alldata = <<>>
    /\ pc = "walk"
    /\ fired = <<>>
    /\ emitted = <<>>
    /\ response = [raises |-> FALSE, status_code |-> HTTP_OK, text |-> <<NavRowA>>]
    /\ navpos = 1
    /\ printed = 0
    /\ retrieved = 1
    /\ output_format = "dicts"
    /\ returned = Pending

\* the iteration at the cursor
Current == Iteration(alllines, i, folio_num, fund_name, isin, navdata)

\* a faulty variant of LoopBody: the record is put in front of the output
LoopBodyPrepends ==
    /\ pc = "walk"
    /\ i < Len(alllines)
    /\ \E c \in {Current} :
          IF c.raised
          THEN /\ pc' = "raised"
               /\ UNCHANGED <<i, folio_num, fund_name, isin, alldata, fired, emitted>>
          ELSE /\ pc' = pc
               /\ i' = c.i
               /\ folio_num' = c.folio_num
               /\ fund_name' = c.fund_name
               /\ isin' = c.isin
               /\ alldata' = c.recs \o alldata
               /\ fired' = Append(fired, [line |-> i, rule |-> c.rule])
               /\ emitted' = IF c.recs = <<>>
                             THEN emitted
                             ELSE Append(emitted, [line |-> i, rule |-> c.rule])
    /\ UNCHANGED <<alllines, navdata, navvars, callvars>>

\* a faulty variant of LoopBody: a lookup that succeeds takes the first
\* entry out of the table
LoopBodyConsumesEntry ==
    /\ pc = "walk"
    /\ i < Len(alllines)
    /\ \E c \in {Current} :
          IF c.raised
          THEN /\ pc' = "raised"
               /\ UNCHANGED <<i, folio_num, fund_name, isin, alldata, fired, emitted,
                              navdata>>
          ELSE /\ pc' = pc
               /\ i' = c.i
               /\ folio_num' = c.folio_num
               /\ fund_name' = c.fund_name
               /\ isin' = c.isin
               /\ alldata' = alldata \o c.recs
               /\ fired' = Append(fired, [line |-> i, rule |-> c.rule])
               /\ emitted' = IF c.recs = <<>>
                             THEN emitted
                             ELSE Append(emitted, [line |-> i, rule |-> c.rule])
               /\ navdata' = IF c.recs # <<>> /\ c.recs[1].scheme_code # ""
                             THEN Tail(navdata)
                             ELSE navdata
    /\ UNCHANGED <<alllines, navvars, callvars>>

\* the body of "while i < len(self.alllines)"
LoopBody ==
    /\ pc = "walk"
    /\ i < Len(alllines)
    /\ \E c \in {Current} :
          IF c.raised
          THEN /\ pc' = "raised"
               /\ UNCHANGED <<i, folio_num, fund_name, isin, alldata, fired, emitted>>
          ELSE /\ pc' = pc
               /\ i' = c.i
               /\ folio_num' = c.folio_num
               /\ fund_name' = c.fund_name
               /\ isin' = c.isin
               /\ alldata' = alldata \o c.recs
               /\ fired' = Append(fired, [line |-> i, rule |-> c.rule])
               /\ emitted' = IF c.recs = <<>>
                             THEN emitted
                             ELSE Append(emitted, [line |-> i, rule |-> c.rule])
    /\ UNCHANGED <<alllines, navdata, navvars, callvars>>

\* a faulty variant of Finish: the feed is requested again after the loop
FinishRetrieves ==
    /\ pc = "walk"
    /\ i >= Len(alllines)
    /\ pc' = "done"
    /\ retrieved' = retrieved + 1
    /\ UNCHANGED <<alllines, navdata, i, folio_num, fund_name, isin, alldata,
                   fired, emitted, response, navpos, printed, callvars>>

\* the loop ends
Finish ==
    /\ pc = "walk"
    /\ i >= Len(alllines)
    /\ pc' = "done"
    /\ UNCHANGED <<alllines, navdata, i, folio_num, fund_name, isin, alldata,
                   fired, emitted, navvars, callvars>>

Next == LoopBody \/ Finish

Spec == Init /\ [][Next]_vars

\* the walk over the lines of mixed shape
CaseInit ==
    /\ alllines \in CaseInputs
    /\ navdata \in NavTables
    /\ i = 0
    /\ folio_num = ""
    /\ fund_name = ""
    /\ isin = ""
    /\ alldata = <<>>
    /\ pc = "walk"
    /\ fired = <<>>
    /\ emitted = <<>>
    /\ response = [raises |-> FALSE, status_code |-> HTTP_OK, text |-> <<NavRowA>>]
    /\ navpos = 1
    /\ printed = 0
    /\ retrieved = 1
    /\ output_format = "dicts"
    /\ returned = Pending

CaseSpec == CaseInit /\ [][Next]_vars

(***************************************************************************)
(* The run from _ProcessTextFile.__init__: the table is requested and      *)
(* loaded, then the lines are walked.                                      *)
(***************************************************************************)
NavInit ==
    /\ alllines \in NavInputs
    /\ response \in Responses
    /\ navdata = <<>>
    /\ navpos = 0
    /\ printed = 0
    /\ retrieved = 0
    /\ output_format = "dicts"
    /\ returned = Pending
    /\ i = 0
    /\ folio_num = ""
    /\ fund_name = ""
    /\ isin = ""
    /\ alldata = <<>>
    /\ pc = "request"
    /\ fired = <<>>
    /\ emitted = <<>>

walkvars == <<alllines, i, folio_num, fund_name, isin, alldata, fired, emitted>>

\* a faulty variant of Request: the body is loaded whatever the status
RequestIgnoresStatus ==
    /\ pc = "request"
    /\ pc' = (IF response.raises THEN "raised" ELSE "load")
    /\ retrieved' = retrieved + 1
    /\ UNCHANGED <<walkvars, callvars, navdata, response, navpos, printed>>

\* _LatestNav.__init__: requests.get and what follows its outcome
Request ==
    /\ pc = "request"
    /\ retrieved' = retrieved + 1
    /\ IF response.raises
       THEN /\ pc' = "raised"
            /\ UNCHANGED printed
       ELSE IF response.status_code = HTTP_OK
       THEN /\ pc' = "load"
            /\ UNCHANGED printed
       ELSE /\ pc' = "walk"
            /\ printed' = printed + 1
    /\ UNCHANGED <<walkvars, callvars, navdata, response, navpos>>

\* one line of the feed in _LatestNav.process
LoadLine ==
    /\ pc = "load"
    /\ navpos < Len(response.text)
    /\ LET r == NavRow(navdata, response.text[navpos + 1])
       IN  IF r.raised
           THEN /\ pc' = "raised"
                /\ UNCHANGED <<navdata, navpos>>
           ELSE /\ pc' = pc
                /\ navdata' = r.navdata
                /\ navpos' = navpos + 1
    /\ UNCHANGED <<walkvars, callvars, response, printed, retrieved>>

\* the feed is exhausted: _LatestNav() returns and process() begins
Loaded ==
    /\ pc = "load"
    /\ navpos >= Len(response.text)
    /\ pc' = "walk"
    /\ UNCHANGED <<walkvars, navdata, navvars, callvars>>

NavNext == Request \/ LoadLine \/ Loaded \/ LoopBody \/ Finish

NavSpec == NavInit /\ [][NavNext]_vars

(***************************************************************************)
(* The run from ProcessPDF.get_pdf_data: the text of the pages is split    *)
(* into lines, the output format is tested, _ProcessTextFile is built (the *)
(* table is loaded and the lines are walked) and the records are returned  *)
(* in the format asked for; an exception raised on the way is caught,      *)
(* printed, and None is returned.                                          *)
(***************************************************************************)
\* final_text begins with a newline, so its first line is empty
PdfInputs == {<<"">> \o lines : lines \in NavInputs}

PdfResponses ==
    {[raises |-> FALSE, status_code |-> HTTP_OK, text |-> <<NavHeader, NavRowA>>],
     [raises |-> FALSE, status_code |-> HTTP_OK, text |-> <<NavRowShort>>],
     [raises |-> FALSE, status_code |-> 404, text |-> <<>>],
     [raises |-> TRUE, status_code |-> 0, text |-> <<>>]}

PdfInit ==
    /\ alllines \in PdfInputs
    /\ response \in PdfResponses
    /\ output_format \in Formats
    /\ returned = Pending
    /\ navdata = <<>>
    /\ navpos = 0
    /\ printed = 0
    /\ retrieved = 0
    /\ i = 0
    /\ folio_num = ""
    /\ fund_name = ""
    /\ isin = ""
    /\ alldata = <<>>
    /\ pc = "open"
    /\ fired = <<>>
    /\ emitted = <<>>

\* a faulty variant of GetPdfData: the output format is not tested
GetPdfDataNoCheck ==
    /\ pc = "open"
    /\ pc' = "request"
    /\ UNCHANGED <<walkvars, navdata, navvars, callvars>>

\* lines 743-764: the text is extracted and the output format is tested
GetPdfData ==
    /\ pc = "open"
    /\ pc' = (IF output_format \notin format_specifiers THEN "raised" ELSE "request")
    /\ UNCHANGED <<walkvars, navdata, navvars, callvars>>

\* lines 767-779: the records are written or returned
Return ==
    /\ pc = "done"
    /\ pc' = "returned"
    /\ returned' = IF output_format = "csv"
                    THEN Result("None", <<>>, alldata, FALSE)
                    ELSE IF output_format = "df"
                    THEN Result("df", alldata, <<>>, FALSE)
                    ELSE IF output_format = "json"
                    THEN Result("json", alldata, <<>>, FALSE)
                    ELSE Result("dicts", alldata, <<>>, FALSE)
    /\ UNCHANGED <<walkvars, navdata, navvars, output_format>>

\* lines 780-782: "except Exception as ex"
Caught ==
    /\ pc = "raised"
    /\ pc' = "returned"
    /\ returned' = Result("None", <<>>, <<>>, TRUE)
    /\ UNCHANGED <<walkvars, navdata, navvars, output_format>>

PdfNext ==
    GetPdfData \/ Request \/ LoadLine \/ Loaded \/ LoopBody \/ Finish \/ Return \/ Caught

PdfSpec == PdfInit /\ [][PdfNext]_vars

(***************************************************************************)
(* Properties of the walk.                                                 *)
(***************************************************************************)
\* the loop is about to process the line at the cursor
AtLine == pc = "walk" /\ i < Len(alllines)

\* the step appends a record, and the record it appends
Emits == Len(alldata') > Len(alldata)

Appended == alldata'[Len(alldata')]

\* the rule the step fired
FiredRule == fired'[Len(fired')].rule

IsFolioHeader(l) == MatchFolio(l).matched

HasMarker(l) == In("ISIN:", l)

IsTransactionLine(l) ==
    MatchBuy(l).matched \/ MatchSell(l).matched \/ MatchSegr(l).matched

\* the marker token is on the line at the cursor or on the next one
MarkerNear ==
    \/ HasMarker(alllines[i + 1])
    \/ i + 1 < Len(alllines) /\ HasMarker(alllines[i + 2])

TxnRules == {"buy", "sell", "segr"}

\* C1: every record the walker appends carries the fund name, identifier
\* and folio that were in the context at entry to the record's line.
C1_ContextBinding ==
    [][(AtLine /\ Emits) =>
          /\ Appended.fund_name = fund_name
          /\ Appended.isin = isin
          /\ Appended.folio_num = folio_num]_vars

\* C2: when the walk is over, every line that matches a transaction
\* grammar, is no folio header and holds no marker token has produced
\* exactly one record.
C2_OneRecordPerTransactionLine ==
    pc = "done" =>
        \A k \in 1..Len(alllines) :
            (/\ IsTransactionLine(alllines[k])
             /\ ~IsFolioHeader(alllines[k])
             /\ ~HasMarker(alllines[k]))
            => Cardinality({n \in 1..Len(emitted) : emitted[n].line = k - 1}) = 1

\* C3: a step at which no rule succeeds advances the cursor by exactly 1
\* and leaves folio, fund name, identifier and the output unchanged.
C3_NoRuleNoEffect ==
    [][(AtLine /\ pc' = "walk" /\ FiredRule = "none") =>
          /\ i' = i + 1
          /\ folio_num' = folio_num
          /\ fund_name' = fund_name
          /\ isin' = isin
          /\ alldata' = alldata]_vars

\* C4: every iteration strictly increases the cursor, never moves it beyond
\* the end of the lines and raises nothing, so there are at most as many
\* iterations as lines; the walk ends only with the cursor at the end.
C4_WalkCompletes ==
    /\ [][AtLine => (i' > i /\ i' <= Len(alllines) /\ pc' = "walk")]_vars
    /\ [](/\ i <= Len(alllines)
          /\ Len(fired) <= i
          /\ pc \in {"walk", "done"}
          /\ pc = "done" => i = Len(alllines))

\* the walk is over and some iteration consumed more than one line
C4_Witness ==
    /\ pc = "done"
    /\ i = Len(alllines)
    /\ Len(alllines) = MaxLines
    /\ Len(fired) < Len(alllines)

C6_EmptyContextRecord ==
    [][(/\ AtLine
        /\ Emits
        /\ \A k \in 1..i : ~IsFolioHeader(alllines[k]) /\ ~HasMarker(alllines[k]))
       => /\ Appended.folio_num = ""
          /\ Appended.fund_name = ""
          /\ Appended.isin = ""]_vars

\* C7: the output only grows at its end, by at most one record a step;
\* there is one record for each emitting line, the records are in increasing
\* order of their source lines, and each carries the date of its source line.
C7_AppendOnly ==
    /\ [][/\ Len(alldata') >= Len(alldata)
          /\ Len(alldata') <= Len(alldata) + 1
          /\ SubSeq(alldata', 1, Len(alldata)) = alldata]_vars
    /\ [](/\ Len(emitted) = Len(alldata)
          /\ \A a, b \in 1..Len(emitted) : a < b => emitted[a].line < emitted[b].line
          /\ \A n \in 1..Len(emitted) :
                StartsWith(alllines[emitted[n].line + 1], alldata[n].date))

\* the walk is over and has appended records of two different lines
C7_Witness ==
    /\ pc = "done"
    /\ Len(alldata) >= 2
    /\ alldata[1].date # alldata[2].date

\* a token of the form (text), and the text in it
IsParen(tok) == Len(tok) >= 2 /\ StartsWith(tok, "(") /\ EndsWith(tok, ")")

Inner(tok) == SubSeq(tok, 2, Len(tok) - 1)

\* C8: a record of the regular-sell grammar has kind Sell, and its amount
\* and units are the numbers written in the two parenthesised tokens of its
\* source line: 500.00 and 5.250 for the redemption line of the library.
C8_SellMagnitudes ==
    \A n \in 1..Len(alldata) :
        emitted[n].rule = "sell" =>
            LET line == alllines[emitted[n].line + 1]
                toks == Split(line, " ")
            IN  /\ alldata[n].txn = "Sell"
                /\ \E j \in 1..(Len(toks) - 1) :
                      /\ IsParen(toks[j])
                      /\ IsParen(toks[j + 1])
                      /\ alldata[n].amount = Float(Inner(toks[j]))
                      /\ alldata[n].units = Float(Inner(toks[j + 1]))
                /\ line = SellLine =>
                      /\ alldata[n].amount = [int |-> 500, frac |-> ""]
                      /\ alldata[n].units = [int |-> 5, frac |-> "25"]

\* a record of the redemption line has been appended
C8_Witness ==
    \E n \in 1..Len(alldata) :
        emitted[n].rule = "sell" /\ alllines[emitted[n].line + 1] = SellLine

\* the number zero as Float gives it
Zero == [int |-> 0, frac |-> ""]

\* C9: a record of the segregated-allotment grammar has kind Buy, an amount
\* that reads as zero and a price of zero.
C9_SegregatedZero ==
    \A n \in 1..Len(alldata) :
        emitted[n].rule = "segr" =>
            /\ MatchSegr(alllines[emitted[n].line + 1]).matched
            /\ alldata[n].txn = "Buy"
            /\ ~FloatRaises(alldata[n].amount)
            /\ Float(alldata[n].amount) = Zero
            /\ alldata[n].nav = Zero

\* a record of the allotment line has been appended
C9_Witness ==
    \E n \in 1..Len(alldata) :
        emitted[n].rule = "segr" /\ alllines[emitted[n].line + 1] = SegrLine

\* the walker reaches its step 3 at the cursor: the line is no folio header
\* and not a single-line identity, and the marker token is on it or the next
AtStep3 ==
    /\ AtLine
    /\ ~IsFolioHeader(alllines[i + 1])
    /\ ~MatchFnameIsin(alllines[i + 1]).matched
    /\ MarkerNear

\* what extract_fund_and_isin returns at the cursor
Extracted == extract_fund_and_isin(alllines, i)

\* C10 as stated: at step 3 a non-empty returned identifier is enough for
\* the walker to take the returned pair and move past the returned span.
C10_IdentifierSuffices ==
    [][(AtStep3 /\ Extracted.isin # "") =>
          /\ fund_name' = Extracted.fund_name
          /\ isin' = Extracted.isin
          /\ i' = Extracted.idx + 1]_vars

\* C10, amended: at step 3 the walker takes the returned pair and moves past
\* the returned span exactly when the returned fund name and the returned
\* identifier are both non-empty; otherwise it goes on to the later rules.
C10_NameAndIdentifierNeeded ==
    [][AtStep3 =>
          IF Extracted.fund_name # "" /\ Extracted.isin # ""
          THEN /\ FiredRule = "extract"
               /\ fund_name' = Extracted.fund_name
               /\ isin' = Extracted.isin
               /\ i' = Extracted.idx + 1
               /\ folio_num' = folio_num
               /\ alldata' = alldata
          ELSE FiredRule # "extract"]_vars

\* step 3 has accepted an extraction at one line, and at another line has
\* passed on an extraction with an identifier but no fund name
C10_Witness ==
    /\ \E k \in 1..Len(fired) : fired[k].rule = "extract"
    /\ \E k \in 1..Len(fired) :
          LET e == extract_fund_and_isin(alllines, fired[k].line)
          IN  /\ fired[k].rule \notin {"folio", "fname_isin", "extract"}
              /\ HasMarker(alllines[fired[k].line + 1])
              /\ e.isin # ""
              /\ e.fund_name = ""

\* C11: a step at which the split-identifier rule fires (marker and INF on
\* the line at the cursor, the nine remaining characters on the next line)
\* advances the cursor by 2, past the line that supplied the remainder.
C11_SplitIsinSkipsRemainder ==
    [][(AtLine /\ pc' = "walk" /\ FiredRule = "split") => i' = i + 2]_vars

\* C12: a step at which a special case fires (fund-name fragment on the line
\* at the cursor or holding tag on the next, identifier on the next line)
\* advances the cursor by 2, past the marker line.
C12_SpecialCaseSkipsMarkerLine ==
    [][(AtLine /\ pc' = "walk" /\ FiredRule = "special") => i' = i + 2]_vars

\* C13: at every cursor k of the lines extract_fund_and_isin returns an end
\* index e with k <= e <= k + 2 and e < len(lines); an empty identifier
\* comes with e = k.  (Evaluated once for each input, when its walk is over.)
C13_ExtractSpan ==
    pc = "done" =>
        \A k \in 0..(Len(alllines) - 1) :
            LET e == extract_fund_and_isin(alllines, k)
            IN  /\ k <= e.idx
                /\ e.idx <= k + 2
                /\ e.idx < Len(alllines)
                /\ e.isin = "" => e.idx = k

\* the extraction returns the cursor itself, the next line and the line
\* after it, at cursors of one input, and an empty identifier at another
C13_Witness ==
    /\ pc = "done"
    /\ alllines = <<PlainLine, HyphenLine, MarkerLine>>
    /\ extract_fund_and_isin(alllines, 0).idx = 2
    /\ extract_fund_and_isin(alllines, 1).idx = 2
    /\ extract_fund_and_isin(alllines, 2).idx = 2
    /\ extract_fund_and_isin(<<PlainLine>>, 0) = Ret("", "", 0)

\* C14: a step at a single-line identity "<code>-<name> - ISIN: <identifier>"
\* sets the fund name to the text before the marker cleaned (the text after
\* its first hyphen) and the identifier to the 12-character code: the
\* identity line of the library gives "ExampleFund-Growth-Direct Plan" and
\* "INF123456789".
C14_SingleLineIdentity ==
    [][(AtLine /\ ~IsFolioHeader(alllines[i + 1])
              /\ MatchFnameIsin(alllines[i + 1]).matched) =>
          LET g == MatchFnameIsin(alllines[i + 1]).g
          IN  /\ fund_name' = CleanFirstHyphen(g.fund_name)
              /\ isin' = g.isin
              /\ alllines[i + 1] = FnameIsinLine =>
                    /\ fund_name' = "ExampleFund-Growth-Direct Plan"
                    /\ isin' = "INF123456789"]_vars

\* the identifier that follows the marker token on a line, "" if none
MarkerIdentifier(l) == ReSearch(ISIN_RE, Strip(Remove(Strip(l), "ISIN:")))

\* the line at the cursor ends with a hyphen and the next line begins with
\* the marker token followed by an identifier
AtTrailingHyphen ==
    /\ AtLine
    /\ i + 1 < Len(alllines)
    /\ EndsWith(Strip(alllines[i + 1]), "-")
    /\ StartsWith(Strip(alllines[i + 2]), "ISIN:")
    /\ MarkerIdentifier(alllines[i + 2]) # ""

\* the line at the cursor without its trailing hyphens, cleaned
HyphenName == CleanFirstHyphen(Strip(RStripChars(Strip(alllines[i + 1]), {"-"})))

\* what C15 asserts of a step
TrailingHyphenEffect ==
    /\ fund_name' = HyphenName
    /\ isin' = MarkerIdentifier(alllines[i + 2])
    /\ i' = i + 2
    /\ (alllines[i + 1] = HyphenLine /\ alllines[i + 2] = MarkerLine) =>
          (fund_name' = "ExampleFund" /\ isin' = "INF987654321")

FolioThenBuy(k) ==
    /\ k + 1 < Len(alllines)
    /\ IsFolioHeader(alllines[k + 1])
    /\ \E n \in 1..Len(fired) : fired[n] = [line |-> k, rule |-> "folio"]
    /\ MatchBuy(alllines[k + 2]).matched
    /\ ~HasMarker(alllines[k + 2])
    /\ k + 2 < Len(alllines) => ~HasMarker(alllines[k + 3])

\* C16: when the walk is over, a folio header followed by a regular-buy line
\* has given exactly one record for the buy line, of kind Buy, with the
\* folio of the header and the amount and units tokens of the buy line; the
\* two lines of the scenario give folio 12345678 and one Buy record with
\* amount 1000.00 and units 10.500.
C16_FolioThenBuy ==
    pc = "done" =>
        /\ \A k \in 0..(Len(alllines) - 2) :
              FolioThenBuy(k) =>
                  LET recs == {n \in 1..Len(emitted) : emitted[n].line = k + 1}
                      g == MatchBuy(alllines[k + 2]).g
                  IN  /\ Cardinality(recs) = 1
                      /\ \A n \in recs :
                            /\ alldata[n].txn = "Buy"
                            /\ alldata[n].folio_num = MatchFolio(alllines[k + 1]).g.folio_num
                            /\ alldata[n].amount = g.amount
                            /\ alldata[n].units = g.units
        /\ alllines = <<FolioLine, BuyLine>> =>
              /\ folio_num = "12345678"
              /\ Len(alldata) = 1
              /\ alldata[1].txn = "Buy"
              /\ alldata[1].folio_num = "12345678"
              /\ Float(alldata[1].amount) = [int |-> 1000, frac |-> ""]
              /\ Float(alldata[1].units) = [int |-> 10, frac |-> "5"]

\* the walk over the two lines of the scenario is over
C16_Witness ==
    /\ pc = "done"
    /\ alllines = <<FolioLine, BuyLine>>
    /\ FolioThenBuy(0)
    /\ Len(alldata) = 1

\* the transaction grammars a line matches
GrammarsOf(l) ==
    {g \in TxnRules :
        \/ g = "buy" /\ MatchBuy(l).matched
        \/ g = "sell" /\ MatchSell(l).matched
        \/ g = "segr" /\ MatchSegr(l).matched}

\* the first grammar, in the order buy, sell, segr, that a line matches
FirstGrammar(l) ==
    IF MatchBuy(l).matched THEN "buy"
    ELSE IF MatchSell(l).matched THEN "sell"
    ELSE IF MatchSegr(l).matched THEN "segr"
    ELSE "none"

\* C17 as stated: no line matches more than one of the three transaction
\* grammars.
C17_MutuallyExclusive ==
    \A k \in 1..Len(alllines) : Cardinality(GrammarsOf(alllines[k])) <= 1

\* C17, amended: a line that matches the regular-buy or the regular-sell
\* grammar matches the segregated grammar too; the grammars are tried in the
\* order buy, sell, segregated, and a record is of the first grammar its
\* line matches.
C17_FirstGrammarDecides ==
    /\ \A k \in 1..Len(alllines) :
          ({"buy", "sell"} \cap GrammarsOf(alllines[k]) # {})
              => "segr" \in GrammarsOf(alllines[k])
    /\ \A n \in 1..Len(emitted) :
          emitted[n].rule = FirstGrammar(alllines[emitted[n].line + 1])

\* records of a line that matches two grammars and of a line that matches
\* the segregated grammar alone
C17_Witness ==
    /\ \E n \in 1..Len(emitted) :
          /\ emitted[n].rule = "buy"
          /\ GrammarsOf(alllines[emitted[n].line + 1]) = {"buy", "segr"}
    /\ \E n \in 1..Len(emitted) :
          /\ emitted[n].rule = "segr"
          /\ GrammarsOf(alllines[emitted[n].line + 1]) = {"segr"}

(***************************************************************************)
(* Properties of the price table.                                          *)
(***************************************************************************)
\* the table is built and the walk has begun or ended
TableBuilt == pc \in {"walk", "done"}

\* the identifiers looked up: both identifiers of every feed row, the
\* identifier of the split-marker line, and one no row has
LookupIds ==
    {"INF123456789", "INF123456780", "INF555555555", "INF987654321", "INF000000000", ""}

\* the data rows of the response, in feed order
DataRows == SelectSeq(response.text, IsDataRow)

\* the entries whose primary or alternate identifier is id
EntriesWith(id) ==
    {k \in 1..Len(navdata) :
        navdata[k].isin_growth = id \/ navdata[k].isin_div_reinv = id}

\* C18: get_sch_code(identifier) returns the scheme code of the first loaded
\* entry, in feed order, whose primary or alternate identifier equals the
\* argument, and the empty string when no entry matches; it never raises, and
\* an unknown identifier is no error: the walk goes on and the record gets
\* the empty code.
C18_FirstEntryInFeedOrder ==
    TableBuilt =>
        /\ response.status_code = HTTP_OK =>
               /\ Len(navdata) = Len(DataRows)
               /\ \A k \in 1..Len(navdata) :
                      LET t == Split(DataRows[k], ";")
                      IN  /\ navdata[k].scheme_code = t[1]
                          /\ navdata[k].isin_growth = t[2]
                          /\ navdata[k].isin_div_reinv = t[3]
        /\ \A id \in LookupIds :
               LET code == get_sch_code(navdata, id)
               IN  IF EntriesWith(id) = {}
                   THEN code = ""
                   ELSE \E k \in EntriesWith(id) :
                           /\ \A m \in EntriesWith(id) : k <= m
                           /\ code = navdata[k].scheme_code
        /\ \A n \in 1..Len(alldata) :
               /\ alldata[n].isin \in LookupIds
               /\ alldata[n].scheme_code = get_sch_code(navdata, alldata[n].isin)

\* both rows have the identifier, the alternate one first: the first decides;
\* and a walk whose identifier no row has ends with a record without code
C18_Witness ==
    /\ pc = "done"
    /\ \/ /\ response.text = <<NavRowB, NavRowA>>
          /\ alllines = <<FnameIsinLine, BuyLine>>
          /\ Len(alldata) = 1
          /\ alldata[1].isin = "INF123456789"
          /\ alldata[1].scheme_code = "102"
          /\ Cardinality(EntriesWith("INF123456789")) = 2
       \/ /\ response.text = <<NavRowA, NavText>>
          /\ alllines = <<FolioLine, MarkerLine, SellLine>>
          /\ Len(alldata) = 1
          /\ alldata[1].isin = "INF987654321"
          /\ alldata[1].scheme_code = ""

\* the loader is about to read a feed line, and that line
AtFeedLine == pc = "load" /\ navpos < Len(response.text)

FeedLine == response.text[navpos + 1]

\* a data row with fewer than 6 fields
ShortRow(eachline) == IsDataRow(eachline) /\ Len(Split(eachline, ";")) < 6

\* C19: while the feed is loaded, a line that has the separator ';', is not
\* the header row and has fewer than 6 fields is ignored: it adds no entry,
\* loading continues with the following line, and no error results.
C19_ShortRowIgnored ==
    [][(AtFeedLine /\ ShortRow(FeedLine)) =>
          /\ navdata' = navdata
          /\ navpos' = navpos + 1
          /\ pc' = "load"]_vars

\* the retrieval returned a status other than success
RetrievalFailed == ~response.raises /\ response.status_code # HTTP_OK

\* C20: if the feed retrieval returns a non-success HTTP status, the table is
\* left empty, the failure is reported once, the line walk still runs to
\* completion (no line of the feed is loaded, nothing is raised, every
\* iteration moves the cursor forward within the lines and the loop ends at
\* their end), and every lookup, hence the scheme code of every record, is
\* empty.
C20_FailedRetrieval ==
    /\ [](RetrievalFailed =>
            /\ pc \in {"request", "walk", "done"}
            /\ navdata = <<>>
            /\ navpos = 0
            /\ printed = (IF pc = "request" THEN 0 ELSE 1)
            /\ \A id \in LookupIds : get_sch_code(navdata, id) = ""
            /\ \A n \in 1..Len(alldata) : alldata[n].scheme_code = ""
            /\ pc = "walk" => i <= Len(alllines)
            /\ pc = "done" => i = Len(alllines))
    /\ [][(RetrievalFailed /\ pc = "request") => pc' = "walk"]_vars
    /\ [][(RetrievalFailed /\ AtLine) =>
             (pc' = "walk" /\ i' > i /\ i' <= Len(alllines))]_vars

\* a failed retrieval whose body had the row of the identifier: the walk is
\* done, the message was written once, and the record has no scheme code
C20_Witness ==
    /\ pc = "done"
    /\ response = [raises |-> FALSE, status_code |-> 404, text |-> <<NavRowA>>]
    /\ alllines = <<FnameIsinLine, BuyLine>>
    /\ i = 2
    /\ printed = 1
    /\ navdata = <<>>
    /\ Len(alldata) = 1
    /\ alldata[1].isin = "INF123456789"
    /\ alldata[1].scheme_code = ""

\* C21: if the feed retrieval fails by a network error or by its timeout
\* (requests.get raises instead of returning a response), the run degrades to
\* an empty table rather than aborting: the walk is performed over all lines
\* with the table empty.
C21_RequestErrorDegrades ==
    [][(pc = "request" /\ response.raises) =>
          (pc' = "walk" /\ navdata' = <<>>)]_vars

\* C22: identifier lookup is deterministic and free of side effects: no step
\* of the walk (each may call get_sch_code) modifies the loaded table, every
\* lookup gives after the step what it gave before, and so two lookups of
\* the same identifier give the same code, the empty one included: records
\* with the same identifier have the same scheme code.
C22_LookupPure ==
    /\ [][pc = "walk" =>
             /\ navdata' = navdata
             /\ \A id \in LookupIds :
                    get_sch_code(navdata', id) = get_sch_code(navdata, id)]_vars
    /\ [](\A m, n \in 1..Len(alldata) :
             alldata[m].isin = alldata[n].isin
                 => alldata[m].scheme_code = alldata[n].scheme_code)

\* two records of the same identifier were looked up in a table that has two
\* entries with it, and both got the code of the first
C22_Witness ==
    /\ pc = "done"
    /\ response.text = <<NavRowA, NavRowB>>
    /\ Len(navdata) = 2
    /\ Len(alldata) = 2
    /\ alldata[1].isin = "INF123456789"
    /\ alldata[2].isin = "INF123456789"
    /\ alldata[1].scheme_code = "101"
    /\ alldata[2].scheme_code = "101"

\* C23: the feed is retrieved exactly once per run, and that retrieval
\* (successful or degraded) and the loading of its lines are finished before
\* the walker processes the first line; no retrieval happens during the walk.
C23_RetrievedOnceBeforeWalk ==
    /\ [](/\ retrieved = (IF pc = "request" THEN 0 ELSE 1)
          /\ pc \in {"request", "load"} => fired = <<>> /\ alldata = <<>> /\ i = 0
          /\ (pc \in {"walk", "done"} /\ response.status_code = HTTP_OK)
                 => navpos = Len(response.text))
    /\ [][(pc \in {"walk", "done"}) =>
             (/\ retrieved' = retrieved
              /\ response' = response
              /\ navpos' = navpos
              /\ pc' \in {"walk", "done", "raised"})]_vars

\* a walk over three lines is done after one retrieval of a two-line feed
C23_Witness ==
    /\ pc = "done"
    /\ retrieved = 1
    /\ response.status_code = HTTP_OK
    /\ Len(response.text) = 2
    /\ navpos = 2
    /\ Len(alllines) = 3
    /\ Len(fired) >= 2

\* a 12-character identifier: INF and 9 uppercase letters or digits
WellFormedIsin(id) ==
    /\ Len(id) = 12
    /\ SubSeq(id, 1, 3) = "INF"
    /\ \A k \in 4..12 : Char(id, k) \in (Uppers \cup Digits)

\* C24: in every reachable state of the walker the context identifier is the
\* empty string or a 12-character string made of 'INF' and exactly 9
\* characters from uppercase letters and digits; hence the identifier of
\* every emitted record has that form.
C24_IdentifierForm ==
    /\ isin = "" \/ WellFormedIsin(isin)
    /\ \A n \in 1..Len(alldata) :
           alldata[n].isin = "" \/ WellFormedIsin(alldata[n].isin)

\* the split rule put the context identifier together from the prefix of one
\* line and nine characters of the next, and a record carries it
C24_Witness ==
    /\ pc = "done"
    /\ alllines = <<MarkerLine, FolioLine, BuyLine>>
    /\ fired[1].rule = "split"
    /\ isin = "INFABCDE1234"
    /\ WellFormedIsin(isin)
    /\ Len(alldata) = 1
    /\ alldata[1].isin = isin

(***************************************************************************)
(* Properties of get_pdf_data.                                             *)
(***************************************************************************)
\* the output format asked for is not one of the allowed ones
BadFormat == output_format \notin format_specifiers

\* C25: if the requested output form is not one of the allowed forms (dicts,
\* csv, json, df), get_pdf_data fails fast before any line processing begins:
\* the feed is not retrieved, no line is walked and no record is produced
\* (none returned, none written), and the failure is reported: the exception
\* is printed and the call gives back None.
C25_BadFormatFailsFast ==
    /\ [](BadFormat =>
            /\ pc \in {"open", "raised", "returned"}
            /\ retrieved = 0
            /\ navdata = <<>>
            /\ fired = <<>>
            /\ i = 0
            /\ alldata = <<>>
            /\ pc = "returned" => returned = Result("None", <<>>, <<>>, TRUE))
    /\ [][(BadFormat /\ pc = "open") => pc' = "raised"]_vars
    /\ [][(BadFormat /\ pc = "raised") => (pc' = "returned" /\ returned'.reported)]_vars

\* the call with the format "xml", on a document with a transaction and
\* with a feed that could be retrieved, has returned
C25_Witness ==
    /\ pc = "returned"
    /\ output_format = "xml"
    /\ alllines = <<"", FnameIsinLine, BuyLine>>
    /\ response.status_code = HTTP_OK /\ ~response.raises
    /\ returned.kind = "None"
    /\ returned.reported
    /\ retrieved = 0
    /\ alldata = <<>>

(***************************************************************************)
(* Properties of the walk over the lines of mixed shape.                   *)
(***************************************************************************)
\* the line at the cursor
Line == alllines[i + 1]

\* the line at the cursor reaches classification: it is no folio header and
\* neither it nor the next line has the marker token
AtClassification == AtLine /\ ~IsFolioHeader(Line) /\ ~MarkerNear

\* the record the grammar g makes of the line at the cursor
RecordOf(g) ==
    IF g = "buy"
    THEN BuyRecord(MatchBuy(Line).g, folio_num, fund_name, isin, navdata)
    ELSE IF g = "sell"
    THEN SellRecord(MatchSell(Line).g, folio_num, fund_name, isin, navdata)
    ELSE SegrRecord(MatchSegr(Line).g, folio_num, fund_name, isin, navdata)

\* C26: classification tries regular buy, then regular sell, then segregated
\* allotment, and the first grammar that matches alone determines the
\* record; each cursor position emits at most one record; a line that fails
\* an earlier grammar is emitted under a later grammar if that one matches,
\* and otherwise emits nothing and is skipped.
C26_Classification ==
    /\ [][AtLine => Len(alldata') <= Len(alldata) + 1]_vars
    /\ [][(AtClassification /\ pc' = "walk") =>
             /\ i' = i + 1
             /\ FiredRule = FirstGrammar(Line)
             /\ IF FirstGrammar(Line) = "none"
                THEN alldata' = alldata
                ELSE alldata' = Append(alldata, RecordOf(FirstGrammar(Line)))]_vars

\* a line with a word where the amount should be fails the buy and the sell
\* grammar and is emitted under the segregated one; a line with a date and
\* no numbers is skipped; a sell line is emitted as a sell
C26_Witness ==
    /\ pc = "done"
    /\ alllines = <<NonNumLine, NoGrammarLine, SellLine>>
    /\ GrammarsOf(NonNumLine) = {"segr"}
    /\ GrammarsOf(NoGrammarLine) = {}
    /\ emitted = <<[line |-> 0, rule |-> "segr"], [line |-> 2, rule |-> "sell"]>>
    /\ fired[2].rule = "none"
    /\ Len(alldata) = 2

\* C27: rule precedence: a line matching the folio-header grammar only
\* updates folio (the fund name, the identifier and the records stay, the
\* cursor moves to the next line), even if it also contains 'ISIN:' or
\* transaction columns; and a line containing the marker token 'ISIN:' never
\* emits a transaction record, even if it also matches a transaction grammar.
C27_RulePrecedence ==
    /\ [][(AtLine /\ IsFolioHeader(Line)) =>
             /\ folio_num' = MatchFolio(Line).g.folio_num
             /\ fund_name' = fund_name
             /\ isin' = isin
             /\ alldata' = alldata
             /\ i' = i + 1]_vars
    /\ [][(AtLine /\ HasMarker(Line)) => alldata' = alldata]_vars
    /\ [](\A n \in 1..Len(emitted) : ~HasMarker(alllines[emitted[n].line + 1]))

\* a folio header that goes on with ISIN: and an identifier changed the folio
\* alone, and a line with ISIN: before four numeric columns was taken by the
\* manual fallback and left no record
C27_Witness ==
    /\ pc = "done"
    /\ alllines = <<FnameIsinLine, FolioIsinLine, TxnMarkerLine>>
    /\ HasMarker(FolioIsinLine)
    /\ MatchBuy(TxnMarkerLine).matched
    /\ fired[2].rule = "folio"
    /\ fired[3].rule = "fallback"
    /\ folio_num = "77"
    /\ isin = "INF123456789"
    /\ alldata = <<>>

\* C28: in the manual fallback (a line with 'ISIN:' that no earlier rule
\* accepted) the fund name is obtained by smart cleaning of the text before
\* 'ISIN:': the text after the last hyphen, unless that text is shorter than
\* 5 characters or begins with '(', in which case the text after the first
\* hyphen is used.
C28_FallbackSmartCleaning ==
    [][(AtLine /\ pc' = "walk" /\ FiredRule = "fallback") =>
          fund_name' = CleanLastHyphenOrFirst(Strip(Split(Line, "ISIN:")[1]))]_vars

\* a plain decimal number: digits, then optionally a point and digits
PLAIN_NUM == <<Plus(Digits), Item({"."}, FALSE, 0, 1, FALSE), Star(Digits)>>

\* date, free text, and four plain decimal numbers
PLAIN_BUY ==
    DATE \o <<WsPlus, DotStar, WsPlus>> \o PLAIN_NUM \o <<WsPlus>> \o PLAIN_NUM
         \o <<WsPlus>> \o PLAIN_NUM \o <<WsPlus>> \o PLAIN_NUM \o <<DotStar>>

PlainBuyTable == [l \in TabulatedLines |-> ReMatch(PLAIN_BUY, BuyGroups, l).matched]

IsPlainBuy(l) == PlainBuyTable[l]

\* C29: a line 'date, freeText, amount, units, price, balance' is classified
\* as regular buy whenever the four numeric columns are plain decimal
\* numbers, whether or not each contains a decimal point and whether or not
\* digits appear after the point ('1000', '1000.' and '1000.00' are all
\* accepted as a numeric column).
C29_PlainDecimalColumns ==
    [][(AtClassification /\ pc' = "walk" /\ IsPlainBuy(Line)) =>
          /\ FiredRule = "buy"
          /\ Emits
          /\ Appended.amount = MatchBuy(Line).g.amount]_vars

\* the identifiers that can be found on the line l: a whole one, or the
\* prefix with nine characters of l
IdentifiersOn(l) ==
    {ReSearch(ISIN_RE, l), "INF" \o ReSearch(ISIN_REST_RE, Strip(l))} \ {"", "INF"}

\* the identifiers on the lines the step went over, the next one included
IdentifiersPassed ==
    UNION {IdentifiersOn(alllines[k]) :
              k \in (i + 1)..Min2(Len(alllines), i' + 1)}

\* C30: fund name and identifier of the context always form a pair taken
\* from the same identity match: every step that changes the fund name also
\* sets the identifier to one found together with that name, and a rule that
\* finds no identifier changes neither; hence no record combines a fund name
\* with the identifier of an earlier identity block.
C30_NameIdentifierPair ==
    [][(AtLine /\ pc' = "walk" /\ fund_name' # fund_name) =>
          isin' \in IdentifiersPassed]_vars

\* C31: every record whose identifier is the empty string has an empty
\* scheme code, for every loaded feed, including feeds in which some row has
\* a blank primary or alternate identifier field.
C31_EmptyIdentifierEmptyCode ==
    \A n \in 1..Len(alldata) :
        alldata[n].isin = "" => alldata[n].scheme_code = ""

====
